---- MODULE Spec2Model ----
(***************************************************************************)
(* Tehreer-Android, native face layer.                                     *)
(*   RenderableFace  (RenderableFace.cpp): reference counted owner of one  *)
(*                   FreeType face handle.                                 *)
(*   ShapableFace    (ShapableFace.cpp): reference counted HarfBuzz font   *)
(*                   over a RenderableFace, its five font callbacks, its   *)
(*                   table-loading callback and its AdvanceCache.          *)
(* Every thread runs one operation at a time.  pc[t] is the rest of the    *)
(* operation's program, a sequence of instructions in program order; an    *)
(* instruction at the head of pc[t] is the one the thread is executing.    *)
(* The header files (RenderableFace.h, ShapableFace.h, AdvanceCache.h,     *)
(* FreeType.h, FontFile.h, Convert.h) are not part of the sources at hand; *)
(* what they define is modelled from the design document.                  *)
(***************************************************************************)
EXTENDS Integers, Sequences, FiniteSets, TLC

\* ------------------------------------------------------------------ bounds
MaxRF == 2          \* RenderableFace objects ever created
MaxSF == 3          \* ShapableFace objects ever created
MaxRetain == 2      \* references the binding layer holds on one object
MaxCount == 2       \* entries of one batch call
MaxOps == 5         \* operations started in one run
CacheSize == 2      \* slots of an AdvanceCache
LiveOps == 2        \* ownership operations started in a run under fairness

Threads == {"t1", "t2"}
\* Section 5 of the design: retain/release and the other ownership operations
\* are serialized by the binding layer, shaping calls are not.  One thread stands
\* for the binding layer's serialized ownership operations.
Owner == "t1"
NoThread == "none"
RFIds == 1..MaxRF
SFIds == 1..MaxSF
FaceIndices == {0, 1}
CoordSets == {<<1>>, <<2>>}
CodePoints == {1, 2, 3}
Selectors == {1, 2}
\* hb_codepoint_t glyph identifiers the shaping engine hands to the advance
\* callbacks: three glyphs of the font and one identifier wider than 16 bits
GlyphIDs == {1, 3, 65537}
Tags == {1, 2}
\* <<stride of the input buffer, stride of the output buffer>>, in entries
StridePairs == {<<1, 2>>, <<2, 1>>}
Untouched == 0 - 1

\* a callback that keeps the 32-bit glyph identifier as it is
ToUInt16_wide(x) == x

\* ------------------------------------------------------- integer conversions
\* static_cast<uint16_t>(glyph)
ToUInt16(x) == x % 65536

\* FT_Fixed (long) narrowed to int32_t / hb_position_t.  An unscaled advance
\* (FT_LOAD_NO_SCALE) is in font units, far inside the 32-bit range, which is also
\* the range of the integers of this model: the narrowing keeps every such value.
ToInt32(x) == x

\* Convert.h toF16Dot16: value x 65536 (16.16 fixed point)
toF16Dot16(c) == c * 65536

\* ------------------------------------------------------------ the font engine
\* FreeType's answers for the font file at hand.  Code point 3 has no glyph;
\* glyph identifiers 1..3 exist; advances depend on the design coordinates
\* that were applied to the handle; table 2 is absent.
FT_Get_Char_Index(face, unicode) ==
    IF unicode = 3 THEN 0 ELSE unicode + 10 * face.face_index

FT_Face_GetCharVariantIndex(face, unicode, selector) ==
    IF unicode = 3 \/ selector = 2 THEN 0 ELSE unicode + 10 * face.face_index

FT_Get_Advance(face, gindex) ==
    IF gindex \in 1..3
    THEN 100 * gindex + 1000 * face.face_index
         + (IF face.design = <<>> THEN 0 ELSE face.design[1] \div 65536)
    ELSE 0

FT_Load_Sfnt_Table_length(face, tag) ==
    IF tag = 2 THEN 0 ELSE 4 + face.face_index

units_per_EM(face) == 1000 + 1048 * face.face_index

\* ------------------------------------------------------------------- state
VARIABLES
    rf,         \* RenderableFace objects
    ft,         \* FreeType face handles, by the RenderableFace slot that gets them
    sf,         \* ShapableFace objects
    cache,      \* m_advanceCache of each ShapableFace
    fontFile,   \* the FontFile collaborator: its retain count
    funcs,      \* defaultFontFuncs: how often createFontFuncs ran
    mutex,      \* FreeType::mutex(): the thread holding it
    pc,         \* per thread: the instructions left of its operation
    loc,        \* per thread: the operation, its arguments and results
    ext,        \* references held by the binding layer
    opsLeft     \* operations that may still start

vars == <<rf, ft, sf, cache, fontFile, funcs, mutex, pc, loc, ext, opsLeft>>

NoRF == [st |-> "free", m_retainCount |-> 0, m_ftFace |-> 0, m_coordinates |-> <<>>,
         ffRetained |-> 0, ffReleased |-> 0]

NoFT == [open |-> FALSE, face_index |-> 0, design |-> <<>>, setVar |-> 0, done |-> 0]

NoSF == [st |-> "free", m_retainCount |-> 0, m_renderableFace |-> 0, m_rootFace |-> 0,
         hbFace |-> 0, funcsCtx |-> 0, index |-> 0, upem |-> 0, varCoords |-> <<>>,
         dtor |-> 0, fontFuncs |-> 0]

EmptySlot == [key |-> -1, val |-> 0]

EmptyCache == [i \in 0..(CacheSize - 1) |-> EmptySlot]

Idle == [name |-> "idle", self |-> 0, ctx |-> 0, in |-> <<>>, out |-> <<>>,
         count |-> 0, inStride |-> 1, outStride |-> 1, ret |-> Untouched,
         acq |-> 0, hit |-> FALSE, pre |-> <<>>, face |-> 0, cache0 |-> <<>>]

Ins(op, x) == [op |-> op, x |-> x]

Init ==
    /\ rf = [r \in RFIds |-> NoRF]
    /\ ft = [r \in RFIds |-> NoFT]
    /\ sf = [s \in SFIds |-> NoSF]
    /\ cache = [s \in SFIds |-> EmptyCache]
    /\ fontFile = 1
    /\ funcs = 0
    /\ mutex = NoThread
    /\ pc = [t \in Threads |-> <<>>]
    /\ loc = [t \in Threads |-> Idle]
    /\ ext = [rfs |-> [r \in RFIds |-> 0], sfs |-> [s \in SFIds |-> 0]]
    /\ opsLeft = MaxOps

\* ----------------------------------------------------------------- helpers
QueryOps == {"nominal_glyph", "nominal_glyphs", "variation_glyph",
             "glyph_h_advance", "glyph_h_advances", "reference_table"}

\* an ownership operation (create, deriveVariation, retain, release) may start
CanStartOwnership(t) == loc[t].name = "idle" /\ opsLeft > 0

\* the threads, other than t, in a shaping query on ShapableFace s: each of them
\* is a holder of s for the time of its call
QueryingSF(t, s) == {u \in Threads \ {t} : loc[u].name \in QueryOps /\ loc[u].self = s}

FreeRF == {r \in RFIds : rf[r].st = "free"}
FreeSF == {s \in SFIds : sf[s].st = "free"}
Least(S) == CHOOSE x \in S : \A y \in S : x <= y

Begin(t, name, self, code) ==
    /\ pc' = [pc EXCEPT ![t] = code]
    /\ loc' = [loc EXCEPT ![t] = [Idle EXCEPT !.name = name, !.self = self]]
    /\ opsLeft' = opsLeft - 1

\* an operation that has run to its return statement: its argument and result
Returned(t, name, arg, ret) ==
    /\ pc' = [pc EXCEPT ![t] = <<>>]
    /\ loc' = [loc EXCEPT ![t] = [Idle EXCEPT !.name = name, !.self = ret,
                                              !.in = <<arg>>, !.ret = ret]]
    /\ opsLeft' = opsLeft - 1

At(t, op) == pc[t] # <<>> /\ Head(pc[t]).op = op

\* the thread goes on with `code` in place of the instruction it executed
Goto(t, code) == pc' = [pc EXCEPT ![t] = code \o Tail(pc[t])]

\* --------------------------------------------------------- RenderableFace
\* a constructor that stores the font file without retaining it
RenderableFace_ctor_borrows(ftFace) ==
    [st |-> "alive", m_retainCount |-> 1, m_ftFace |-> ftFace, m_coordinates |-> <<>>,
     ffRetained |-> 0, ffReleased |-> 0]

\* RenderableFace::RenderableFace: m_fontFile(fontFile.retain()), m_ftFace, count 1
RenderableFace_ctor(ftFace) ==
    [st |-> "alive", m_retainCount |-> 1, m_ftFace |-> ftFace, m_coordinates |-> <<>>,
     ffRetained |-> 1, ffReleased |-> 0]

\* RenderableFace::create: a null handle gives nullptr, any other a new object.
\* A handle is a slot of ft; 0 is the null handle.
RenderableFace_create_makes(ftFace) == ftFace # 0

\* the object `create` builds for handle h (opened for face index idx)
Construct(h, idx) ==
    /\ rf' = [rf EXCEPT ![h] = RenderableFace_ctor(h)]
    /\ ft' = [ft EXCEPT ![h] = [NoFT EXCEPT !.open = TRUE, !.face_index = idx]]
    /\ fontFile' = fontFile + rf'[h].ffRetained
    /\ ext' = [ext EXCEPT !.rfs[h] = 1]

RenderableFace_create(t, ftFace, idx) ==
    /\ CanStartOwnership(t)
    /\ ftFace # 0 => (FreeRF # {} /\ ftFace = Least(FreeRF))
    /\ IF RenderableFace_create_makes(ftFace)
       THEN /\ Construct(ftFace, idx)
            /\ Returned(t, "RenderableFace::create", ftFace, ftFace)
       ELSE /\ Returned(t, "RenderableFace::create", ftFace, 0)
            /\ UNCHANGED <<rf, ft, fontFile, ext>>
    /\ UNCHANGED <<sf, cache, funcs, mutex>>

\* RenderableFace::retain: m_retainCount++
RenderableFace_retained(count) == count + 1

RenderableFace_retain(t, r) ==
    /\ CanStartOwnership(t)
    /\ rf[r].st = "alive" /\ ext.rfs[r] \in 1..(MaxRetain - 1)
    /\ rf' = [rf EXCEPT ![r].m_retainCount = RenderableFace_retained(@)]
    /\ ext' = [ext EXCEPT !.rfs[r] = @ + 1]
    /\ Begin(t, "RenderableFace::retain", r, <<>>)
    /\ UNCHANGED <<ft, sf, cache, fontFile, funcs, mutex>>

\* a destructor that releases the font file before it unlocks
RenderableFace_dtor_holds(r) ==
    <<Ins("mutex.lock", r), Ins("FT_Done_Face", r), Ins("fontFile.release", r),
      Ins("mutex.unlock", r)>>

\* RenderableFace::~RenderableFace: lock, FT_Done_Face, unlock, m_fontFile.release()
RenderableFace_dtor(r) ==
    <<Ins("mutex.lock", r), Ins("FT_Done_Face", r), Ins("mutex.unlock", r),
      Ins("fontFile.release", r)>>

\* a release that tests the count before decrementing it: m_retainCount-- == 0
ReleaseDeletes_post(count) == count = 0

\* RenderableFace::release: if (--m_retainCount == 0) delete this
ReleaseDeletes(count) == count - 1 = 0

RenderableFace_release(t, r) ==
    /\ CanStartOwnership(t)
    /\ rf[r].st = "alive" /\ ext.rfs[r] > 0
    /\ ext' = [ext EXCEPT !.rfs[r] = @ - 1]
    /\ Begin(t, "RenderableFace::release", r, <<Ins("RenderableFace::release", r)>>)
    /\ UNCHANGED <<rf, ft, sf, cache, fontFile, funcs, mutex>>

Do_RenderableFace_release(t) ==
    /\ At(t, "RenderableFace::release")
    /\ LET r == Head(pc[t]).x IN
       /\ rf' = [rf EXCEPT ![r].m_retainCount = @ - 1,
                           ![r].st = IF ReleaseDeletes(rf[r].m_retainCount)
                                     THEN "dead" ELSE @]
       /\ Goto(t, IF ReleaseDeletes(rf[r].m_retainCount) THEN RenderableFace_dtor(r) ELSE <<>>)
    /\ UNCHANGED <<ft, sf, cache, fontFile, funcs, mutex, loc, ext, opsLeft>>

\* FreeType::mutex().lock(): a std::mutex, a thread waits while any thread holds it
Do_lock(t) ==
    /\ At(t, "mutex.lock")
    /\ mutex = NoThread
    /\ mutex' = t
    /\ loc' = [loc EXCEPT ![t].acq = @ + 1]
    /\ Goto(t, <<>>)
    /\ UNCHANGED <<rf, ft, sf, cache, fontFile, funcs, ext, opsLeft>>

\* FreeType::mutex().unlock()
Do_unlock(t) ==
    /\ At(t, "mutex.unlock")
    /\ mutex' = IF mutex = t THEN NoThread ELSE mutex
    /\ Goto(t, <<>>)
    /\ UNCHANGED <<rf, ft, sf, cache, fontFile, funcs, loc, ext, opsLeft>>

\* FaceLock's constructor, std::lock_guard<RenderableFace>: RenderableFace::lock()
\* (RenderableFace.h) takes the one mutex of the engine, FreeType::mutex()
Do_FaceLock(t) ==
    /\ At(t, "FaceLock")
    /\ mutex = NoThread
    /\ mutex' = t
    /\ loc' = [loc EXCEPT ![t].acq = @ + 1]
    /\ Goto(t, <<>>)
    /\ UNCHANGED <<rf, ft, sf, cache, fontFile, funcs, ext, opsLeft>>

\* FaceLock's destructor: RenderableFace::unlock().  The callback returns as
\* its FaceLock goes out of scope: its results are the caller's from then on
\* and the thread is free for its next operation.
Do_FaceUnlock(t) ==
    /\ At(t, "~FaceLock")
    /\ mutex' = IF mutex = t THEN NoThread ELSE mutex
    /\ Goto(t, <<>>)
    /\ loc' = IF Tail(pc[t]) = <<>> THEN [loc EXCEPT ![t] = Idle] ELSE loc
    /\ UNCHANGED <<rf, ft, sf, cache, fontFile, funcs, ext, opsLeft>>

Do_FT_Done_Face(t) ==
    /\ At(t, "FT_Done_Face")
    /\ LET h == rf[Head(pc[t]).x].m_ftFace IN
       ft' = [ft EXCEPT ![h] = [NoFT EXCEPT !.done = ft[h].done + 1]]
    /\ Goto(t, <<>>)
    /\ UNCHANGED <<rf, sf, cache, fontFile, funcs, mutex, loc, ext, opsLeft>>

Do_fontFile_release(t) ==
    /\ At(t, "fontFile.release")
    /\ LET r == Head(pc[t]).x IN
       rf' = [rf EXCEPT ![r] = [NoRF EXCEPT !.st = "dead",
                                            !.ffRetained = rf[r].ffRetained,
                                            !.ffReleased = rf[r].ffReleased + 1]]
    /\ fontFile' = fontFile - 1
    /\ Goto(t, <<>>)
    /\ UNCHANGED <<ft, sf, cache, funcs, mutex, loc, ext, opsLeft>>

\* the operation returns to its caller
Return(t) ==
    /\ loc[t].name # "idle" /\ pc[t] = <<>>
    /\ loc' = [loc EXCEPT ![t] = Idle]
    /\ UNCHANGED <<rf, ft, sf, cache, fontFile, funcs, mutex, pc, ext, opsLeft>>

\* ----------------------------------------------------------- ShapableFace
FaceOf(r) == ft[rf[r].m_ftFace]

\* ShapableFace::ShapableFace(RenderableFace &), the member initialisers:
\* m_rootFace(nullptr), m_renderableFace(renderableFace.retain()), m_retainCount(1)
ShapableFace_init(r) ==
    [NoSF EXCEPT !.st = "alive", !.m_retainCount = 1, !.m_renderableFace = r,
                 !.m_rootFace = 0]

\* ShapableFace::create: constructs a root face over RenderableFace r
ShapableFace_create(t, r) ==
    /\ CanStartOwnership(t)
    /\ rf[r].st = "alive" /\ ext.rfs[r] > 0
    /\ FreeSF # {}
    /\ LET s == Least(FreeSF) IN
       /\ rf' = [rf EXCEPT ![r].m_retainCount = RenderableFace_retained(@)]
       /\ sf' = [sf EXCEPT ![s] = ShapableFace_init(r)]
       /\ Begin(t, "ShapableFace::create", s, <<Ins("face_index", r), Ins("hb_font_create", s)>>)
    /\ UNCHANGED <<ft, cache, fontFile, funcs, mutex, ext>>

\* ftFace->face_index and ftFace->units_per_EM, read from the handle of
\* RenderableFace x (ShapableFace.cpp 205-207, RenderableFace.cpp 77)
Do_face_index(t) ==
    /\ At(t, "face_index")
    /\ LET face == FaceOf(Head(pc[t]).x) IN
       loc' = [loc EXCEPT ![t].in = <<face.face_index, units_per_EM(face)>>]
    /\ Goto(t, <<>>)
    /\ UNCHANGED <<rf, ft, sf, cache, fontFile, funcs, mutex, ext, opsLeft>>

\* a defaultFontFuncs without the static: createFontFuncs at every call
defaultFontFuncs_fresh(made) == made + 1

\* static hb_font_funcs_t *defaultFontFuncs = createFontFuncs(): a function-local
\* static is initialised by the first call only, and by one thread only; the
\* set made by the n-th run of createFontFuncs is called n
defaultFontFuncs(made) == IF made = 0 THEN 1 ELSE made

\* hb_font_set_funcs(m_hbFont, defaultFontFuncs(), this, nullptr): the function
\* set of the font (the context is FuncsContext)
hb_font_set_funcs(face, fontFuncs) == [face EXCEPT !.fontFuncs = fontFuncs]

\* a constructor that registers the parent as the context of the derived font
FuncsContext_parent(s, parent) == parent

\* the context hb_font_set_funcs registers for the font of s: `this`
FuncsContext(s, parent) == s

\* ShapableFace::setupCoordinates: the coordinates of the wrapped face, if any,
\* become the font's variation design coordinates
setupCoordinates(rface) == rface.m_coordinates

\* ShapableFace::retain: m_retainCount++
ShapableFace_retained(count) == count + 1

\* ShapableFace::ShapableFace(RenderableFace &), the body: the face made by
\* hb_face_create_for_tables has this object as its table context and carries
\* the index and units per em read from the handle; the font gets the shared
\* functions with `this` as context
ShapableFace_root(s, r, index, upem, rface) ==
    [ShapableFace_init(r) EXCEPT
        !.hbFace = s, !.index = index, !.upem = upem,
        !.funcsCtx = FuncsContext(s, s),
        !.varCoords = setupCoordinates(rface)]

Do_hb_font_create(t) ==
    /\ At(t, "hb_font_create")
    /\ LET s == Head(pc[t]).x
           r == sf[s].m_renderableFace
       IN
       /\ sf' = [sf EXCEPT ![s] = hb_font_set_funcs(
                      ShapableFace_root(s, r, loc[t].in[1], loc[t].in[2], rf[r]),
                      defaultFontFuncs(funcs))]
       /\ cache' = [cache EXCEPT ![s] = EmptyCache]
       /\ ext' = [ext EXCEPT !.sfs[s] = 1]
    /\ funcs' = defaultFontFuncs(funcs)
    /\ Goto(t, <<>>)
    /\ UNCHANGED <<rf, ft, fontFile, mutex, loc, opsLeft>>

\* a derived constructor that takes its parent for the root, whatever it is
RootFace_parent(parent, parentFace) == parent

\* ShapableFace *rootFace = parent.m_rootFace ?: &parent
RootFace(parent, parentFace) ==
    IF parentFace.m_rootFace # 0 THEN parentFace.m_rootFace ELSE parent

\* hb_font_create_sub_font(rootFace->m_hbFont): the sub-font shares the face,
\* and with it the table callback, of the root's font
hb_font_create_sub_font(rootFace) == rootFace.hbFace

\* a derived constructor that makes a face of its own, with itself as the table
\* context, in place of a sub-font of the root's font
ShapableFace_derived_ownface(s, parent, parentFace, rootFace, r, rface) ==
    [ShapableFace_init(r) EXCEPT
        !.hbFace = s,
        !.funcsCtx = FuncsContext(s, parent),
        !.m_rootFace = RootFace(parent, parentFace),
        !.varCoords = setupCoordinates(rface)]

\* ShapableFace::ShapableFace(ShapableFace &parent, RenderableFace &): the object built
ShapableFace_derived(s, parent, parentFace, rootFace, r, rface) ==
    [ShapableFace_init(r) EXCEPT
        !.hbFace = hb_font_create_sub_font(rootFace),
        !.funcsCtx = FuncsContext(s, parent),
        !.m_rootFace = RootFace(parent, parentFace),
        !.varCoords = setupCoordinates(rface)]

\* a derived constructor that retains its parent in place of the root
DerivedRetains_parent(parent, parentFace, r) == [rface |-> r, root |-> parent]

\* the objects the derived constructor retains: the wrapped face and the root
DerivedRetains(parent, parentFace, r) ==
    [rface |-> r, root |-> RootFace(parent, parentFace)]

\* ShapableFace::deriveVariation
ShapableFace_deriveVariation(t, parent, r) ==
    /\ CanStartOwnership(t)
    /\ sf[parent].st = "alive" /\ ext.sfs[parent] > 0
    /\ rf[r].st = "alive" /\ ext.rfs[r] > 0
    /\ FreeSF # {}
    /\ LET s == Least(FreeSF)
           kept == DerivedRetains(parent, sf[parent], r)
           root == RootFace(parent, sf[parent])
       IN
       /\ rf' = [rf EXCEPT ![kept.rface].m_retainCount = RenderableFace_retained(@)]
       /\ sf' = [sf EXCEPT ![s] = hb_font_set_funcs(
                                      ShapableFace_derived(s, parent, sf[parent], sf[root],
                                                           r, rf[r]),
                                      defaultFontFuncs(funcs)),
                           ![kept.root].m_retainCount = ShapableFace_retained(@)]
       /\ cache' = [cache EXCEPT ![s] = EmptyCache]
       /\ ext' = [ext EXCEPT !.sfs[s] = 1]
       /\ Returned(t, "ShapableFace::deriveVariation", parent, s)
    /\ funcs' = defaultFontFuncs(funcs)
    /\ UNCHANGED <<ft, fontFile, mutex>>

\* ShapableFace::retain
ShapableFace_retain(t, s) ==
    /\ CanStartOwnership(t)
    /\ sf[s].st = "alive" /\ ext.sfs[s] \in 1..(MaxRetain - 1)
    /\ sf' = [sf EXCEPT ![s].m_retainCount = ShapableFace_retained(@)]
    /\ ext' = [ext EXCEPT !.sfs[s] = @ + 1]
    /\ Begin(t, "ShapableFace::retain", s, <<>>)
    /\ UNCHANGED <<rf, ft, cache, fontFile, funcs, mutex>>

\* ShapableFace::~ShapableFace: hb_font_destroy, m_renderableFace.release(),
\* then m_rootFace->release() if there is a root
ShapableFace_dtor(s) ==
    <<Ins("RenderableFace::release", sf[s].m_renderableFace)>>
    \o (IF sf[s].m_rootFace # 0
        THEN <<Ins("ShapableFace::release", sf[s].m_rootFace)>> ELSE <<>>)

\* ShapableFace::release, called by a holder that is not in a call on s
ShapableFace_release(t, s) ==
    /\ CanStartOwnership(t)
    /\ sf[s].st = "alive" /\ ext.sfs[s] > 0
    /\ ext.sfs[s] > 1 \/ QueryingSF(t, s) = {}
    /\ ext' = [ext EXCEPT !.sfs[s] = @ - 1]
    /\ Begin(t, "ShapableFace::release", s, <<Ins("ShapableFace::release", s)>>)
    /\ UNCHANGED <<rf, ft, sf, cache, fontFile, funcs, mutex>>

Do_ShapableFace_release(t) ==
    /\ At(t, "ShapableFace::release")
    /\ LET s == Head(pc[t]).x
           deletes == ReleaseDeletes(sf[s].m_retainCount)
       IN
       /\ sf' = [sf EXCEPT ![s] = IF deletes
                                  THEN [NoSF EXCEPT !.st = "dead", !.dtor = sf[s].dtor + 1]
                                  ELSE [@ EXCEPT !.m_retainCount = @ - 1]]
       /\ cache' = [cache EXCEPT ![s] = IF deletes THEN EmptyCache ELSE @]
       /\ Goto(t, IF deletes THEN ShapableFace_dtor(s) ELSE <<>>)
    /\ UNCHANGED <<rf, ft, fontFile, funcs, mutex, loc, ext, opsLeft>>

\* ------------------------------------------- RenderableFace::deriveVariation
\* m_fontFile.createRenderableFace(m_ftFace->face_index), then setupCoordinates
RenderableFace_deriveVariation(t, r, coords) ==
    /\ CanStartOwnership(t)
    /\ rf[r].st = "alive" /\ ext.rfs[r] > 0
    /\ pc' = [pc EXCEPT ![t] = <<Ins("face_index", r), Ins("createRenderableFace", r)>>]
    /\ loc' = [loc EXCEPT ![t] = [Idle EXCEPT !.name = "RenderableFace::deriveVariation",
                                              !.self = r, !.pre = coords]]
    /\ opsLeft' = opsLeft - 1
    /\ UNCHANGED <<rf, ft, sf, cache, fontFile, funcs, mutex, ext>>

\* a deriveVariation that sets the coordinates up on `this`
deriveVariation_target_this(r, derivedFace) == r

\* derivedFace->setupCoordinates(coordArray, coordCount): the face set up
deriveVariation_target(r, derivedFace) == derivedFace

\* FontFile::createRenderableFace(faceIndex): the collaborator opens a new handle
\* and hands it to RenderableFace::create, or fails and returns nullptr
Do_createRenderableFace(t) ==
    /\ At(t, "createRenderableFace")
    /\ \/ /\ loc' = [loc EXCEPT ![t].ret = 0]
          /\ Goto(t, <<>>)
          /\ UNCHANGED <<rf, ft, fontFile, ext>>
       \/ /\ FreeRF # {}
          /\ LET h == Least(FreeRF) IN
             /\ Construct(h, loc[t].in[1])
             /\ loc' = [loc EXCEPT ![t].ret = h]
             /\ Goto(t, <<Ins("setupCoordinates", deriveVariation_target(loc[t].self, h))>>)
    /\ UNCHANGED <<sf, cache, funcs, mutex, opsLeft>>

\* RenderableFace::setupCoordinates: m_coordinates = the given vector, and
\* FT_Set_Var_Design_Coordinates(m_ftFace, ...) with each value as 16.16 fixed point
fixedCoords(coordArray) == [i \in 1..Len(coordArray) |-> toF16Dot16(coordArray[i])]

Do_setupCoordinates(t) ==
    /\ At(t, "setupCoordinates")
    /\ LET d == Head(pc[t]).x IN
       /\ rf' = [rf EXCEPT ![d].m_coordinates = loc[t].pre]
       /\ ft' = [ft EXCEPT ![rf[d].m_ftFace].design = fixedCoords(loc[t].pre),
                           ![rf[d].m_ftFace].setVar = @ + 1]
    /\ Goto(t, <<>>)
    /\ UNCHANGED <<sf, cache, fontFile, funcs, mutex, loc, ext, opsLeft>>

\* ------------------------------------------------------------ AdvanceCache
\* AdvanceCache.h: a direct-mapped table of CacheSize slots, each holding the
\* glyph identifier it was stored for
AdvanceCache_get(c, glyphID) ==
    LET e == c[glyphID % CacheSize] IN
    IF e.key = glyphID THEN [found |-> TRUE, advance |-> e.val]
    ELSE [found |-> FALSE, advance |-> 0]

AdvanceCache_put(c, glyphID, advance) ==
    [c EXCEPT ![glyphID % CacheSize] = [key |-> glyphID, val |-> advance]]

\* ------------------------------------------------------- strided buffers
\* entry i (from 0) of a buffer with the given stride, in entries
Pos(i, stride) == i * stride + 1

BufLen(count, stride) == IF count = 0 THEN 0 ELSE (count - 1) * stride + 1

\* the caller's buffer holding `items` at the given stride, 0 between them
Strided(items, stride) ==
    [p \in 1..BufLen(Len(items), stride) |->
        IF (p - 1) % stride = 0 THEN items[((p - 1) \div stride) + 1] ELSE 0]

Fresh(count, stride) == [p \in 1..BufLen(count, stride) |-> Untouched]

SeqsUpTo(S, n) == UNION {[1..k -> S] : k \in 0..n}

\* --------------------------------------------------------- the callbacks
\* each callback: instance = the context registered for the font, then
\* FaceLock lock(instance->renderableFace()), the body, and the lock's release
\* when the callback returns
Locked(instance, body) ==
    <<Ins("FaceLock", sf[instance].m_renderableFace), Ins(body, instance),
      Ins("~FaceLock", sf[instance].m_renderableFace)>>

\* a nominal_glyph that locks by hand and returns without unlocking
nominal_glyph_code_leaks(instance) ==
    <<Ins("FaceLock", sf[instance].m_renderableFace), Ins("nominal_glyph", instance)>>

nominal_glyph_code(instance) == Locked(instance, "nominal_glyph")
nominal_glyphs_code(instance) == Locked(instance, "nominal_glyphs")
variation_glyph_code(instance) == Locked(instance, "variation_glyph")
\* an advance callback that consults the cache before it takes the lock
glyph_h_advance_code_unlocked(instance) ==
    <<Ins("glyph_h_advance", instance), Ins("FaceLock", sf[instance].m_renderableFace),
      Ins("~FaceLock", sf[instance].m_renderableFace)>>

glyph_h_advance_code(instance) == Locked(instance, "glyph_h_advance")
glyph_h_advances_code(instance) == Locked(instance, "glyph_h_advances")
\* a table callback whose body is handed to a helper that locks again
reference_table_code_relocks(instance) ==
    <<Ins("FaceLock", sf[instance].m_renderableFace),
      Ins("FaceLock", sf[instance].m_renderableFace), Ins("reference_table", instance),
      Ins("~FaceLock", sf[instance].m_renderableFace)>>

reference_table_code(instance) == Locked(instance, "reference_table")

CanQuery(t, s) == loc[t].name = "idle" /\ sf[s].st = "alive" /\ ext.sfs[s] > 0

\* The shaping engine calls a callback of the font of s with the registered
\* context.  The arguments are the caller's; the model draws them at the
\* callback's body, the first instruction that reads them.
Query(t, name, s, instance, code) ==
    /\ pc' = [pc EXCEPT ![t] = code]
    /\ loc' = [loc EXCEPT ![t] = [Idle EXCEPT !.name = name, !.self = s, !.ctx = instance]]
    /\ UNCHANGED <<rf, ft, sf, cache, fontFile, funcs, mutex, ext>>

\* the callback's arguments and what it left in the output buffer and returned
Ran(t, in, inStride, pre, outStride, out, ret, hit, face, cache0) ==
    loc' = [loc EXCEPT ![t].face = face, ![t].cache0 = cache0, ![t].in = in, ![t].inStride = inStride, ![t].pre = pre,
                       ![t].outStride = outStride, ![t].out = out, ![t].ret = ret,
                       ![t].hit = hit,
                       ![t].count = IF in = <<>> THEN 0
                                    ELSE ((Len(in) - 1) \div inStride) + 1]

\* instance->renderableFace()->ftFace(): the handle a callback reads
InstanceHandle(instance) == rf[sf[instance].m_renderableFace].m_ftFace

InstanceFace(instance) == ft[InstanceHandle(instance)]

\* a nominal_glyph that stores the engine's answer before it tests it
nominal_glyph_storesfirst(face, unicode, glyph) ==
    LET glyphID == FT_Get_Char_Index(face, unicode) IN
    [ret |-> IF glyphID = 0 THEN 0 ELSE 1, glyph |-> glyphID]

\* nominal_glyph: false and *glyph untouched when FT_Get_Char_Index gives 0
nominal_glyph(face, unicode, glyph) ==
    LET glyphID == FT_Get_Char_Index(face, unicode) IN
    IF glyphID = 0 THEN [ret |-> 0, glyph |-> glyph] ELSE [ret |-> 1, glyph |-> glyphID]

\* variation_glyph: the same over FT_Face_GetCharVariantIndex
variation_glyph(face, unicode, variationSelector, glyph) ==
    LET glyphID == FT_Face_GetCharVariantIndex(face, unicode, variationSelector) IN
    IF glyphID = 0 THEN [ret |-> 0, glyph |-> glyph] ELSE [ret |-> 1, glyph |-> glyphID]

\* a batch lookup that skips an unmapped code point and goes on: no break
RECURSIVE nominal_glyphs_continue(_, _, _, _, _, _, _)
nominal_glyphs_continue(face, count, in, unicodeStride, out, glyphStride, done) ==
    IF done < count
    THEN LET glyphID == FT_Get_Char_Index(face, in[Pos(done, unicodeStride)]) IN
         nominal_glyphs_continue(face, count, in, unicodeStride,
                                 IF glyphID # 0
                                 THEN [out EXCEPT ![Pos(done, glyphStride)] = glyphID]
                                 ELSE out,
                                 glyphStride, done + 1)
    ELSE [done |-> done, out |-> out]

\* nominal_glyphs: for (done = 0; done < count; done++) { ... else break; }
RECURSIVE nominal_glyphs(_, _, _, _, _, _, _)
nominal_glyphs(face, count, in, unicodeStride, out, glyphStride, done) ==
    IF done < count
    THEN LET glyphID == FT_Get_Char_Index(face, in[Pos(done, unicodeStride)]) IN
         IF glyphID # 0
         THEN nominal_glyphs(face, count, in, unicodeStride,
                             [out EXCEPT ![Pos(done, glyphStride)] = glyphID],
                             glyphStride, done + 1)
         ELSE [done |-> done, out |-> out]
    ELSE [done |-> done, out |-> out]

\* an advance callback that returns the engine's advance without storing it
glyph_h_advance_noput(face, c, glyph) ==
    LET glyphID == ToUInt16(glyph)
        got == AdvanceCache_get(c, glyphID)
        ftAdvance == FT_Get_Advance(face, glyphID)
    IN
    IF got.found
    THEN [ret |-> got.advance, cache |-> c, hit |-> TRUE]
    ELSE [ret |-> ToInt32(ftAdvance), cache |-> c, hit |-> FALSE]

\* an advance callback that stores glyphAdvance, still 0, in place of ftAdvance
glyph_h_advance_putszero(face, c, glyph) ==
    LET glyphID == ToUInt16(glyph)
        got == AdvanceCache_get(c, glyphID)
        ftAdvance == FT_Get_Advance(face, glyphID)
    IN
    IF got.found
    THEN [ret |-> got.advance, cache |-> c, hit |-> TRUE]
    ELSE [ret |-> ToInt32(ftAdvance),
          cache |-> AdvanceCache_put(c, glyphID, 0), hit |-> FALSE]

\* glyph_h_advance: the cached advance, or FT_Get_Advance's, which is then cached
glyph_h_advance(face, c, glyph) ==
    LET glyphID == ToUInt16(glyph)
        got == AdvanceCache_get(c, glyphID)
        ftAdvance == FT_Get_Advance(face, glyphID)
    IN
    IF got.found
    THEN [ret |-> got.advance, cache |-> c, hit |-> TRUE]
    ELSE [ret |-> ToInt32(ftAdvance),
          cache |-> AdvanceCache_put(c, glyphID, ToInt32(ftAdvance)), hit |-> FALSE]

\* a batch advance callback that returns at the first cached glyph
RECURSIVE glyph_h_advances_hitreturns(_, _, _, _, _, _, _, _)
glyph_h_advances_hitreturns(face, c, count, in, glyphStride, out, advanceStride, i) ==
    IF i < count
    THEN LET one == glyph_h_advance(face, c, in[Pos(i, glyphStride)])
             written == [out EXCEPT ![Pos(i, advanceStride)] = one.ret]
         IN
         IF one.hit THEN [cache |-> c, out |-> written]
         ELSE glyph_h_advances_hitreturns(face, one.cache, count, in, glyphStride,
                                          written, advanceStride, i + 1)
    ELSE [cache |-> c, out |-> out]

\* glyph_h_advances: for (i = 0; i < count; i++) the same per entry
RECURSIVE glyph_h_advances(_, _, _, _, _, _, _, _)
glyph_h_advances(face, c, count, in, glyphStride, out, advanceStride, i) ==
    IF i < count
    THEN LET one == glyph_h_advance(face, c, in[Pos(i, glyphStride)]) IN
         glyph_h_advances(face, one.cache, count, in, glyphStride,
                          [out EXCEPT ![Pos(i, advanceStride)] = one.ret],
                          advanceStride, i + 1)
    ELSE [cache |-> c, out |-> out]

\* the table callback: nullptr when FT_Load_Sfnt_Table reports length 0, else a
\* blob of that length
reference_table(face, tag) == FT_Load_Sfnt_Table_length(face, tag)

Call_nominal_glyph(t, s) ==
    /\ CanQuery(t, s)
    /\ Query(t, "nominal_glyph", s, sf[s].funcsCtx, nominal_glyph_code(sf[s].funcsCtx))

Call_variation_glyph(t, s) ==
    /\ CanQuery(t, s)
    /\ Query(t, "variation_glyph", s, sf[s].funcsCtx, variation_glyph_code(sf[s].funcsCtx))

Call_nominal_glyphs(t, s) ==
    /\ CanQuery(t, s)
    /\ Query(t, "nominal_glyphs", s, sf[s].funcsCtx, nominal_glyphs_code(sf[s].funcsCtx))

Call_glyph_h_advance(t, s) ==
    /\ CanQuery(t, s)
    /\ Query(t, "glyph_h_advance", s, sf[s].funcsCtx, glyph_h_advance_code(sf[s].funcsCtx))

Call_glyph_h_advances(t, s) ==
    /\ CanQuery(t, s)
    /\ Query(t, "glyph_h_advances", s, sf[s].funcsCtx, glyph_h_advances_code(sf[s].funcsCtx))

\* hb_face_reference_table on the face of the font of s: the callback's context
\* is the ShapableFace whose constructor made that face
Call_reference_table(t, s) ==
    /\ CanQuery(t, s)
    /\ Query(t, "reference_table", s, sf[s].hbFace, reference_table_code(sf[s].hbFace))

Do_nominal_glyph(t, unicode) ==
    /\ At(t, "nominal_glyph")
    /\ LET got == nominal_glyph(InstanceFace(Head(pc[t]).x), unicode, Untouched) IN
       Ran(t, <<unicode>>, 1, <<Untouched>>, 1, <<got.glyph>>, got.ret, FALSE,
           InstanceHandle(Head(pc[t]).x), <<>>)
    /\ Goto(t, <<>>)
    /\ UNCHANGED <<rf, ft, sf, cache, fontFile, funcs, mutex, ext, opsLeft>>

Do_variation_glyph(t, unicode, selector) ==
    /\ At(t, "variation_glyph")
    /\ LET got == variation_glyph(InstanceFace(Head(pc[t]).x), unicode, selector, Untouched) IN
       Ran(t, <<unicode, selector>>, 2, <<Untouched>>, 1, <<got.glyph>>, got.ret, FALSE,
           InstanceHandle(Head(pc[t]).x), <<>>)
    /\ Goto(t, <<>>)
    /\ UNCHANGED <<rf, ft, sf, cache, fontFile, funcs, mutex, ext, opsLeft>>

Do_nominal_glyphs(t, unicodes, unicodeStride, glyphStride) ==
    /\ At(t, "nominal_glyphs")
    /\ LET in == Strided(unicodes, unicodeStride)
           pre == Fresh(Len(unicodes), glyphStride)
           got == nominal_glyphs(InstanceFace(Head(pc[t]).x), Len(unicodes), in,
                                 unicodeStride, pre, glyphStride, 0)
       IN Ran(t, in, unicodeStride, pre, glyphStride, got.out, got.done, FALSE,
              InstanceHandle(Head(pc[t]).x), <<>>)
    /\ Goto(t, <<>>)
    /\ UNCHANGED <<rf, ft, sf, cache, fontFile, funcs, mutex, ext, opsLeft>>

Do_glyph_h_advance(t, glyph) ==
    /\ At(t, "glyph_h_advance")
    /\ LET instance == Head(pc[t]).x
           got == glyph_h_advance(InstanceFace(instance), cache[instance], glyph)
       IN
       /\ Ran(t, <<glyph>>, 1, <<Untouched>>, 1, <<got.ret>>, got.ret, got.hit,
              InstanceHandle(instance), cache[instance])
       /\ cache' = [cache EXCEPT ![instance] = got.cache]
    /\ Goto(t, <<>>)
    /\ UNCHANGED <<rf, ft, sf, fontFile, funcs, mutex, ext, opsLeft>>

Do_glyph_h_advances(t, glyphs, glyphStride, advanceStride) ==
    /\ At(t, "glyph_h_advances")
    /\ LET instance == Head(pc[t]).x
           in == Strided(glyphs, glyphStride)
           pre == Fresh(Len(glyphs), advanceStride)
           got == glyph_h_advances(InstanceFace(instance), cache[instance], Len(glyphs),
                                   in, glyphStride, pre, advanceStride, 0)
       IN
       /\ Ran(t, in, glyphStride, pre, advanceStride, got.out, 0, FALSE,
              InstanceHandle(instance), cache[instance])
       /\ cache' = [cache EXCEPT ![instance] = got.cache]
    /\ Goto(t, <<>>)
    /\ UNCHANGED <<rf, ft, sf, fontFile, funcs, mutex, ext, opsLeft>>

Do_reference_table(t, tag) ==
    /\ At(t, "reference_table")
    /\ Ran(t, <<tag>>, 1, <<>>, 1, <<>>,
           reference_table(InstanceFace(Head(pc[t]).x), tag), FALSE,
           InstanceHandle(Head(pc[t]).x), <<>>)
    /\ Goto(t, <<>>)
    /\ UNCHANGED <<rf, ft, sf, cache, fontFile, funcs, mutex, ext, opsLeft>>

\* ------------------------------------------------------------ the system
\* the ownership operations of the binding layer
Ownership(t, indices) ==
    \/ \E h \in {0} \cup RFIds, idx \in indices : RenderableFace_create(t, h, idx)
    \/ \E r \in RFIds : RenderableFace_retain(t, r)
    \/ \E r \in RFIds : RenderableFace_release(t, r)
    \/ \E r \in RFIds, coords \in CoordSets : RenderableFace_deriveVariation(t, r, coords)
    \/ \E r \in RFIds : ShapableFace_create(t, r)
    \/ \E s \in SFIds, r \in RFIds : ShapableFace_deriveVariation(t, s, r)
    \/ \E s \in SFIds : ShapableFace_retain(t, s)
    \/ \E s \in SFIds : ShapableFace_release(t, s)
    \/ Do_RenderableFace_release(t)
    \/ Do_FT_Done_Face(t)
    \/ Do_fontFile_release(t)
    \/ Do_face_index(t)
    \/ Do_hb_font_create(t)
    \/ Do_ShapableFace_release(t)
    \/ Do_createRenderableFace(t)
    \/ Do_setupCoordinates(t)
    \/ Return(t)

\* the shaping engine calls a callback of the font of a face
Calls(t) ==
    \/ \E s \in SFIds : Call_nominal_glyph(t, s)
    \/ \E s \in SFIds : Call_variation_glyph(t, s)
    \/ \E s \in SFIds : Call_nominal_glyphs(t, s)
    \/ \E s \in SFIds : Call_glyph_h_advance(t, s)
    \/ \E s \in SFIds : Call_glyph_h_advances(t, s)
    \/ \E s \in SFIds : Call_reference_table(t, s)

\* the callbacks' bodies, with arguments from the given sets
Bodies(t, unicodes, glyphs, n) ==
    \/ \E u \in unicodes : Do_nominal_glyph(t, u)
    \/ \E u \in unicodes, v \in Selectors : Do_variation_glyph(t, u, v)
    \/ \E us \in SeqsUpTo(unicodes, n), st \in StridePairs :
          Do_nominal_glyphs(t, us, st[1], st[2])
    \/ \E g \in glyphs : Do_glyph_h_advance(t, g)
    \/ \E gs \in SeqsUpTo(glyphs, n), st \in StridePairs :
          Do_glyph_h_advances(t, gs, st[1], st[2])
    \/ \E tag \in Tags : Do_reference_table(t, tag)

\* the destructor's explicit locking
Locking(t) == Do_lock(t) \/ Do_unlock(t)

\* the callbacks' scoped locking
FaceLocking(t) == Do_FaceLock(t) \/ Do_FaceUnlock(t)

\* The whole layer: the serialized ownership operations (handles opened at face
\* index 0) interleaved with the shaping calls of another thread (one code point
\* and one glyph each), MaxOps operations in all.
Next ==
    \/ Ownership(Owner, {0})
    \/ \E t \in Threads \ {Owner} :
          \/ Calls(t) /\ opsLeft > 0 /\ opsLeft' = opsLeft - 1
          \/ Bodies(t, {3}, {1}, 1)
    \/ Locking(Owner)
    \/ \E t \in Threads \ {Owner} : FaceLocking(t)

Spec == Init /\ [][Next]_vars

\* Shaping alone, from any thread, with the full argument sets, over a root
\* face (ShapableFace 1 over RenderableFace 1, the default instance of face 0)
\* and a face derived from it (ShapableFace 2 over RenderableFace 2, a variation
\* instance with coordinates <<1>> of face 0 or of face 1).  The object graph is
\* one the ownership operations build: create, deriveVariation,
\* ShapableFace::create, ShapableFace::deriveVariation.
InitShaping ==
    \E idx \in FaceIndices :
    /\ ft = [r \in RFIds |->
                IF r = 1 THEN [NoFT EXCEPT !.open = TRUE]
                ELSE IF r = 2
                THEN [NoFT EXCEPT !.open = TRUE, !.face_index = idx,
                                  !.design = fixedCoords(<<1>>), !.setVar = 1]
                ELSE NoFT]
    /\ LET face1 == [RenderableFace_ctor(1) EXCEPT !.m_retainCount = 2]
           face2 == [RenderableFace_ctor(2) EXCEPT !.m_retainCount = 2,
                                                   !.m_coordinates = <<1>>]
           root == [hb_font_set_funcs(ShapableFace_root(1, 1, 0, units_per_EM(NoFT), face1), 1)
                        EXCEPT !.m_retainCount = 2]
       IN
       /\ rf = [r \in RFIds |-> IF r = 1 THEN face1 ELSE IF r = 2 THEN face2 ELSE NoRF]
       /\ sf = [s \in SFIds |->
                   IF s = 1 THEN root
                   ELSE IF s = 2
                   THEN hb_font_set_funcs(ShapableFace_derived(2, 1, root, root, 2, face2), 1)
                   ELSE NoSF]
    /\ cache = [s \in SFIds |-> EmptyCache]
    /\ fontFile = 3
    /\ funcs = 1
    /\ mutex = NoThread
    /\ pc = [t \in Threads |-> <<>>]
    /\ loc = [t \in Threads |-> Idle]
    /\ ext = [rfs |-> [r \in RFIds |-> IF r <= 2 THEN 1 ELSE 0],
              sfs |-> [s \in SFIds |-> IF s <= 2 THEN 1 ELSE 0]]
    /\ opsLeft = MaxOps

NextShaping ==
    \E t \in Threads :
        \/ Calls(t) /\ UNCHANGED opsLeft
        \/ Bodies(t, CodePoints, GlyphIDs, MaxCount)
        \/ FaceLocking(t)

SpecShaping == InitShaping /\ [][NextShaping]_vars

\* ============================================================= properties
\* the instructions `op` on object x that the running operations still have to
\* execute
Pending(op, x) ==
    Cardinality({p \in UNION {{<<t, i>> : i \in DOMAIN pc[t]} : t \in Threads} :
                    pc[p[1]][p[2]] = Ins(op, x)})

\* the holders of RenderableFace r: the binding layer's references, the live
\* ShapableFaces wrapping it, and the releases already called but not yet run
RFHolders(r) ==
    ext.rfs[r]
    + Cardinality({s \in SFIds : sf[s].st = "alive" /\ sf[s].m_renderableFace = r})
    + Pending("RenderableFace::release", r)

\* the holders of ShapableFace s: the binding layer's references (the
\* constructor's caller before it returns), the live faces derived from it, and
\* the releases already called but not yet run
SFHolders(s) ==
    ext.sfs[s]
    + Pending("hb_font_create", s)
    + Cardinality({d \in SFIds : sf[d].st = "alive" /\ sf[d].m_rootFace = s})
    + Pending("ShapableFace::release", s)

\* C1: an object is alive exactly while its retain count is at least 1, the
\* count equals the number of its holders, and it is destroyed once, by the
\* release that takes the count from 1 to 0: the handle of a RenderableFace is
\* never destroyed (FT_Done_Face) while the count is at least 1, is destroyed
\* at most once, and has been destroyed exactly once when the destructor of a
\* dead face has passed FT_Done_Face; the same for ShapableFace's destructor.
C1_DestroyedOnceAtZero ==
    /\ \A r \in RFIds :
        /\ rf[r].st = "alive" <=> rf[r].m_retainCount >= 1
        /\ rf[r].m_retainCount = RFHolders(r)
        /\ ft[r].done <= 1
        /\ rf[r].st # "dead" => ft[r].done = 0
        /\ rf[r].st = "dead" => (ft[r].done = 1 <=> Pending("FT_Done_Face", r) = 0)
    /\ \A s \in SFIds :
        /\ sf[s].st = "alive" <=> sf[s].m_retainCount >= 1
        /\ sf[s].m_retainCount = SFHolders(s)
        /\ sf[s].dtor = (IF sf[s].st = "dead" THEN 1 ELSE 0)

\* create followed immediately by release: the handle has been destroyed once
C1_Witness ==
    /\ opsLeft = MaxOps - 2
    /\ \E r \in RFIds : rf[r].st = "dead" /\ ft[r].done = 1 /\ rf[r].m_retainCount = 0

\* C2: while a ShapableFace is alive, the RenderableFace it wraps is alive with
\* its handle open, and its root face, if it has one, is alive with its own
\* RenderableFace; the ShapableFace's reference is one of the count of each,
\* over and above the references of the binding layer and of the other faces.
C2_KeepsAlive ==
    \A s \in SFIds : sf[s].st = "alive" =>
        LET r == sf[s].m_renderableFace
            root == sf[s].m_rootFace
        IN
        /\ rf[r].st = "alive" /\ ft[rf[r].m_ftFace].open /\ ft[rf[r].m_ftFace].done = 0
        /\ rf[r].m_retainCount >=
              ext.rfs[r] + Cardinality({d \in SFIds : sf[d].st = "alive"
                                                      /\ sf[d].m_renderableFace = r})
        /\ root # 0 =>
              /\ sf[root].st = "alive"
              /\ rf[sf[root].m_renderableFace].st = "alive"
              /\ sf[root].m_retainCount >=
                    ext.sfs[root] + Cardinality({d \in SFIds : sf[d].st = "alive"
                                                               /\ sf[d].m_rootFace = root})

\* a derived face is the only holder left of its root and of its RenderableFace
C2_Witness ==
    \E s \in SFIds :
        /\ sf[s].st = "alive" /\ sf[s].m_rootFace # 0
        /\ ext.sfs[sf[s].m_rootFace] = 0
        /\ ext.rfs[sf[s].m_renderableFace] = 0
        /\ \A t \in Threads : pc[t] = <<>>

\* the instructions that touch a native handle
EngineOps ==
    {"FT_Done_Face", "face_index", "setupCoordinates"} \cup QueryOps

InEngine(t) == pc[t] # <<>> /\ Head(pc[t]).op \in EngineOps

\* C3: a thread executing an operation that touches a native handle (a table
\* read, a glyph lookup, an advance query, FT_Done_Face, setupCoordinates'
\* FT_Set_Var_Design_Coordinates, the face index and units per em reads) holds
\* the engine's mutex, so at most one thread is inside the engine.
C3_EngineUnderLock ==
    \A t \in Threads : InEngine(t) => mutex = t

\* the references RenderableFaces hold on the font file
FontFileRefs ==
    /\ \A r \in RFIds :
        /\ rf[r].st = "free" => rf[r].ffRetained = 0 /\ rf[r].ffReleased = 0
        /\ rf[r].st = "alive" => rf[r].ffRetained = 1 /\ rf[r].ffReleased = 0
        /\ rf[r].st = "dead" =>
              /\ rf[r].ffRetained = 1
              /\ rf[r].ffReleased = (IF Pending("fontFile.release", r) = 0 THEN 1 ELSE 0)
    /\ fontFile = 1 + Cardinality({r \in RFIds : rf[r].ffRetained = 1
                                                 /\ rf[r].ffReleased = 0})

\* a step in which RenderableFace::create is called and returns
CreateStep ==
    (loc[Owner].name = "idle" /\ loc'[Owner].name = "RenderableFace::create") =>
        LET h == loc'[Owner].in[1]
            r == loc'[Owner].ret
        IN
        IF h = 0
        THEN r = 0 /\ rf' = rf /\ ft' = ft /\ fontFile' = fontFile
        ELSE /\ r # 0 /\ rf[r].st = "free"
             /\ rf'[r].st = "alive" /\ rf'[r].m_retainCount = 1 /\ rf'[r].m_ftFace = h
             /\ \A q \in RFIds \ {r} : rf'[q] = rf[q]
             /\ fontFile' = fontFile + 1

\* C10: create with a null handle returns null, makes no object and leaves the
\* font file's count as it was; with a handle it returns a new RenderableFace
\* with count 1 that holds one reference on the font file, which its
\* destruction releases, once.
C10_Create == [][CreateStep /\ FontFileRefs']_vars

\* a create of a null handle after a RenderableFace was made and destroyed
C10_Witness ==
    /\ loc[Owner].name = "RenderableFace::create" /\ loc[Owner].in = <<0>>
    /\ \E r \in RFIds : rf[r].ffReleased = 1

\* a callback of thread t that has run its body and holds its results
Done(t, name) == loc[t].name = name /\ At(t, "~FaceLock")

AdvanceOps == {"glyph_h_advance", "glyph_h_advances"}

\* the thread is at the instruction that reads and writes an AdvanceCache
InCache(t) == pc[t] # <<>> /\ Head(pc[t]).op \in AdvanceOps

\* C4: a thread reading or writing a ShapableFace's cache holds the engine's
\* mutex, so no two threads are in a cache at once, and the advance the single
\* query returns is the value completely stored for the glyph id it asked for.
C4_CacheUnderLock ==
    /\ \A t \in Threads : InCache(t) => mutex = t
    /\ \A t, u \in Threads : (InCache(t) /\ InCache(u)) => t = u
    /\ \A t \in Threads : Done(t, "glyph_h_advance") =>
          LET glyphID == ToUInt16(loc[t].in[1]) IN
          cache[loc[t].self][glyphID % CacheSize] = [key |-> glyphID, val |-> loc[t].ret]

\* two threads in advance queries on one ShapableFace: one has been through the
\* cache, the other waits for the lock
C4_Witness ==
    \E t, u \in Threads :
        /\ t # u /\ Done(t, "glyph_h_advance") /\ ~loc[t].hit
        /\ loc[u].name \in AdvanceOps /\ At(u, "FaceLock")
        /\ loc[u].self = loc[t].self

\* entry i (from 0) of the input buffer of the call of thread t
InEntry(t, i) == loc[t].in[Pos(i, loc[t].inStride)]

\* the first of `count` input entries that the face maps to no glyph, or count
FirstUnmapped(t, face) ==
    LET bad == {i \in 0..(loc[t].count - 1) : FT_Get_Char_Index(face, InEntry(t, i)) = 0}
    IN IF bad = {} THEN loc[t].count ELSE Least(bad)

\* C5: the batch nominal-glyph query processes the entries in order under one
\* lock acquisition, stops at the first code point without a glyph, returns the
\* number k of entries before it, has written the glyphs of those k entries at
\* their strided positions, and has left every other output position as it was.
C5_NominalGlyphs ==
    \A t \in Threads : Done(t, "nominal_glyphs") =>
        LET face == InstanceFace(loc[t].self)
            k == FirstUnmapped(t, face)
            written == {Pos(i, loc[t].outStride) : i \in 0..(k - 1)}
        IN
        /\ loc[t].ret = k
        /\ DOMAIN loc[t].out = DOMAIN loc[t].pre
        /\ \A i \in 0..(k - 1) :
              loc[t].out[Pos(i, loc[t].outStride)] = FT_Get_Char_Index(face, InEntry(t, i))
        /\ \A p \in DOMAIN loc[t].out : p \notin written => loc[t].out[p] = loc[t].pre[p]
        /\ loc[t].acq = 1

\* a batch that stops inside: some entries mapped, then one that is not
C5_Witness ==
    \E t \in Threads :
        /\ Done(t, "nominal_glyphs")
        /\ loc[t].count = MaxCount /\ loc[t].ret > 0 /\ loc[t].ret < loc[t].count

\* the glyph id of entry i of an advance query, as the callback narrows it
GlyphIDOf(t, i) == ToUInt16(InEntry(t, i))

\* an entry of the batch before (after) entry i replaces the glyph id of entry
\* i in its slot
DisplacedBefore(t, i) ==
    \E j \in 0..(i - 1) : /\ GlyphIDOf(t, j) % CacheSize = GlyphIDOf(t, i) % CacheSize
                          /\ GlyphIDOf(t, j) # GlyphIDOf(t, i)

DisplacedAfter(t, i) ==
    \E j \in (i + 1)..(loc[t].count - 1) :
        /\ GlyphIDOf(t, j) % CacheSize = GlyphIDOf(t, i) % CacheSize
        /\ GlyphIDOf(t, j) # GlyphIDOf(t, i)

NoCacheAdvance(face, glyph) == ToInt32(FT_Get_Advance(face, ToUInt16(glyph)))

\* every filled slot holds, under the id it was stored for, the engine's advance
CacheSound(s) ==
    \A i \in DOMAIN cache[s] :
        cache[s][i] # EmptySlot =>
            /\ cache[s][i].key % CacheSize = i
            /\ cache[s][i].val = ToInt32(FT_Get_Advance(InstanceFace(s), cache[s][i].key))

\* C7: whatever was queried before, hits and evictions included, the advance
\* returned for a glyph id is the engine's unscaled advance for that id on the
\* face's handle, as without a cache; a slot never answers for another id.
C7_CacheTransparent ==
    /\ \A s \in SFIds : sf[s].st = "alive" => CacheSound(s)
    /\ \A t \in Threads : Done(t, "glyph_h_advance") =>
          loc[t].ret = NoCacheAdvance(InstanceFace(loc[t].self), loc[t].in[1])
    /\ \A t \in Threads : Done(t, "glyph_h_advances") =>
          \A i \in 0..(loc[t].count - 1) :
              loc[t].out[Pos(i, loc[t].outStride)] =
                  NoCacheAdvance(InstanceFace(loc[t].self), InEntry(t, i))

\* a miss that evicts another glyph id from its slot
C7_Witness ==
    \E t \in Threads :
        /\ Done(t, "glyph_h_advance") /\ ~loc[t].hit
        /\ LET e == loc[t].cache0[GlyphIDOf(t, 0) % CacheSize] IN
           e # EmptySlot /\ e.key # GlyphIDOf(t, 0)

\* a step changes the cache of s only as the body of an advance query made on s
CacheStep ==
    \A s \in SFIds : cache'[s] # cache[s] =>
        \E t \in Threads : /\ loc[t].name \in AdvanceOps /\ loc[t].self = s
                           /\ InCache(t) /\ pc'[t] = Tail(pc[t])
                           /\ loc'[t].cache0 = cache[s]

\* C8: every ShapableFace has a cache of its own; an advance query made with a
\* ShapableFace as context reads and writes the cache of that face only, so
\* queries on a derived face leave the cache of its root as it was.
C8_CacheIsolation == [][CacheStep]_vars

\* an advance query on the derived face has filled its cache while the root's
\* cache holds other entries
C8_Witness ==
    \E t \in Threads :
        /\ loc[t].name \in AdvanceOps /\ At(t, "~FaceLock")
        /\ sf[loc[t].self].m_rootFace # 0
        /\ cache[loc[t].self] # loc[t].cache0
        /\ cache[sf[loc[t].self].m_rootFace] # EmptyCache
        /\ cache[sf[loc[t].self].m_rootFace] # cache[loc[t].self]

\* the root of ShapableFace s: s itself when it is a root
RootOf(s) == IF sf[s].m_rootFace # 0 THEN sf[s].m_rootFace ELSE s

GlyphOps == {"nominal_glyph", "nominal_glyphs", "variation_glyph"} \cup AdvanceOps

\* C9: a derived face's font is over the root's face, so a table read through
\* it, like the face index and units per em, is answered from the handle of the
\* root's RenderableFace; its glyph and advance queries run with the derived
\* face as context and read the handle of its own RenderableFace.
C9_DerivedQueries ==
    /\ \A s \in SFIds : (sf[s].st = "alive" /\ sf[s].m_rootFace # 0) =>
          LET root == RootOf(s) IN
          /\ sf[s].hbFace = sf[root].hbFace
          /\ sf[sf[s].hbFace].index = InstanceFace(root).face_index
          /\ sf[sf[s].hbFace].upem = units_per_EM(InstanceFace(root))
    /\ \A t \in Threads : Done(t, "reference_table") =>
          /\ loc[t].ctx = RootOf(loc[t].self)
          /\ loc[t].face = InstanceHandle(RootOf(loc[t].self))
          /\ loc[t].ret = FT_Load_Sfnt_Table_length(InstanceFace(RootOf(loc[t].self)),
                                                    loc[t].in[1])
    /\ \A t \in Threads : (loc[t].name \in GlyphOps /\ At(t, "~FaceLock")) =>
          /\ loc[t].ctx = loc[t].self
          /\ loc[t].face = InstanceHandle(loc[t].self)
    /\ \A t \in Threads : Done(t, "nominal_glyph") =>
          LET glyphID == FT_Get_Char_Index(InstanceFace(loc[t].self), loc[t].in[1]) IN
          IF glyphID = 0 THEN loc[t].ret = 0 ELSE loc[t].ret = 1 /\ loc[t].out = <<glyphID>>
    /\ \A t \in Threads : Done(t, "glyph_h_advance") =>
          loc[t].ret = ToInt32(FT_Get_Advance(InstanceFace(loc[t].self),
                                              ToUInt16(loc[t].in[1])))

\* a table read through a derived face whose own handle would answer otherwise
C9_Witness ==
    \E t \in Threads :
        /\ Done(t, "reference_table") /\ sf[loc[t].self].m_rootFace # 0
        /\ InstanceHandle(loc[t].self) # loc[t].face
        /\ FT_Load_Sfnt_Table_length(InstanceFace(loc[t].self), loc[t].in[1]) # loc[t].ret

\* a step of RenderableFace::deriveVariation on face F, from its call on: F is
\* as it was, and the step in which the collaborator answers makes no object
\* when the answer is null and a new object otherwise
DeriveStep ==
    loc'[Owner].name = "RenderableFace::deriveVariation" =>
        LET F == loc'[Owner].self
            d == loc'[Owner].ret
        IN
        /\ rf'[F] = rf[F]
        /\ ft'[rf[F].m_ftFace] = ft[rf[F].m_ftFace]
        /\ (loc[Owner].ret = Untouched /\ d = 0) =>
              rf' = rf /\ ft' = ft /\ fontFile' = fontFile
        /\ (loc[Owner].ret = Untouched /\ d \notin {0, Untouched}) =>
              d # F /\ rf[d].st = "free" /\ rf'[d].st = "alive"

\* RenderableFace::deriveVariation at its return: null, or a new face with a
\* handle of its own for the same face index and the given coordinates
DeriveResult ==
    (loc[Owner].name = "RenderableFace::deriveVariation" /\ pc[Owner] = <<>>) =>
        LET F == loc[Owner].self
            d == loc[Owner].ret
        IN
        \/ d = 0
        \/ /\ d \in RFIds \ {F}
           /\ rf[d].st = "alive" /\ rf[d].m_retainCount = 1
           /\ rf[d].m_ftFace # rf[F].m_ftFace
           /\ rf[d].m_coordinates = loc[Owner].pre
           /\ ft[rf[d].m_ftFace].design = fixedCoords(loc[Owner].pre)
           /\ ft[rf[d].m_ftFace].face_index = ft[rf[F].m_ftFace].face_index

\* C11: deriveVariation(coordinates) on a face F returns null when the font
\* file opens no new handle, and otherwise a new RenderableFace with a handle
\* distinct from F's that carries exactly the given coordinates; either way
\* F's handle, stored coordinates and retain count are as they were.
C11_DeriveVariation == [][DeriveStep /\ DeriveResult']_vars

\* deriveVariation has returned a new face with coordinates F does not have
C11_Witness ==
    /\ loc[Owner].name = "RenderableFace::deriveVariation" /\ pc[Owner] = <<>>
    /\ loc[Owner].ret \in RFIds
    /\ rf[loc[Owner].ret].m_coordinates = loc[Owner].pre
    /\ rf[loc[Owner].self].m_coordinates # loc[Owner].pre
    /\ ft[rf[loc[Owner].ret].m_ftFace].setVar = 1

\* what a single-glyph callback must leave for the engine's answer glyphID
SingleGlyphResult(t, glyphID) ==
    /\ loc[t].ret \in {0, 1}
    /\ glyphID = 0 => loc[t].ret = 0 /\ loc[t].out = loc[t].pre
    /\ glyphID # 0 => loc[t].ret = 1 /\ loc[t].out = <<glyphID>>
    /\ loc[t].pre = <<Untouched>>
    /\ loc[t].acq = 1 /\ mutex = t

\* C12: the nominal-glyph and variation-glyph callbacks return false and leave
\* the output glyph as it was when the engine gives glyph index 0, and return
\* true with the output glyph set to the engine's glyph id otherwise; the lock
\* they took is released when they return: a thread outside a callback does
\* not hold it.
C12_SingleGlyph ==
    /\ \A t \in Threads : Done(t, "nominal_glyph") =>
          SingleGlyphResult(t, FT_Get_Char_Index(InstanceFace(loc[t].self), loc[t].in[1]))
    /\ \A t \in Threads : Done(t, "variation_glyph") =>
          SingleGlyphResult(t, FT_Face_GetCharVariantIndex(InstanceFace(loc[t].self),
                                                           loc[t].in[1], loc[t].in[2]))
    /\ \A t \in Threads : loc[t].name = "idle" => mutex # t

\* a nominal-glyph query for a code point without a glyph, about to return,
\* while the other thread is outside any callback
C12_Witness ==
    \E t \in Threads :
        /\ Done(t, "nominal_glyph") /\ loc[t].ret = 0 /\ loc[t].out = <<Untouched>>
        /\ \E u \in Threads \ {t} : loc[u].name = "idle"

\* C13: the destructor of a RenderableFace takes the engine's mutex, destroys
\* the handle, unlocks, and then releases the font file: at each of its steps
\* the earlier ones are done and the later ones are not, and the destroying
\* thread does not hold the mutex when it releases the font file.
C13_DestructorOrder ==
    \A t \in Threads :
        pc[t] # <<>> =>
            LET r == Head(pc[t]).x IN
            /\ At(t, "mutex.lock") =>
                  /\ mutex # t /\ ft[r].done = 0 /\ rf[r].ffReleased = 0
                  /\ pc[t][2].op = "FT_Done_Face"
            /\ At(t, "FT_Done_Face") =>
                  /\ mutex = t /\ ft[r].done = 0 /\ rf[r].ffReleased = 0
                  /\ pc[t][2].op = "mutex.unlock"
            /\ At(t, "mutex.unlock") =>
                  /\ mutex = t /\ ft[r].done = 1 /\ rf[r].ffReleased = 0
                  /\ pc[t][2].op = "fontFile.release"
            /\ At(t, "fontFile.release") =>
                  mutex # t /\ ft[r].done = 1 /\ rf[r].ffReleased = 0

\* the destroying thread is about to release the font file while the other
\* thread, in a callback, holds the mutex
C13_Witness ==
    /\ At(Owner, "fontFile.release")
    /\ mutex \in Threads \ {Owner}

\* C14, as stated: the single advance callback consults the cache before it
\* locks, and on a hit returns the cached value without acquiring the lock.
C14_CacheBeforeLock ==
    \A t \in Threads : loc[t].name = "glyph_h_advance" =>
        /\ At(t, "glyph_h_advance") => loc[t].acq = 0 /\ mutex # t
        /\ (At(t, "~FaceLock") /\ loc[t].hit) => loc[t].acq = 0

\* C14, amended: the single advance callback locks the RenderableFace first,
\* once, on every path, and consults the cache while it holds the lock; on a
\* hit it returns the cached value and leaves the cache as it was, on a miss it
\* returns the engine's unscaled advance and has stored it in the cache.
C14_LockBeforeCache ==
    \A t \in Threads : loc[t].name = "glyph_h_advance" =>
        /\ At(t, "FaceLock") =>
              loc[t].acq = 0 /\ loc[t].ret = Untouched /\ loc[t].in = <<>>
        /\ At(t, "glyph_h_advance") => loc[t].acq = 1 /\ mutex = t
        /\ At(t, "~FaceLock") =>
              LET glyphID == ToUInt16(loc[t].in[1])
                  got == AdvanceCache_get(loc[t].cache0, glyphID)
              IN
              /\ loc[t].acq = 1 /\ mutex = t
              /\ loc[t].hit = got.found
              /\ loc[t].hit =>
                    loc[t].ret = got.advance /\ cache[loc[t].self] = loc[t].cache0
              /\ ~loc[t].hit =>
                    /\ loc[t].ret = ToInt32(FT_Get_Advance(InstanceFace(loc[t].self), glyphID))
                    /\ cache[loc[t].self] =
                          AdvanceCache_put(loc[t].cache0, glyphID, loc[t].ret)

\* a cache hit, answered by a callback that has taken the lock
C14_Witness ==
    \E t \in Threads :
        Done(t, "glyph_h_advance") /\ loc[t].hit /\ loc[t].acq = 1 /\ mutex = t

LockOps == {"mutex.lock", "FaceLock"}

UnlockOps == {"mutex.unlock", "~FaceLock"}

\* the thread is at an acquisition of the engine's mutex
AtLock(t) == pc[t] # <<>> /\ Head(pc[t]).op \in LockOps

\* the positions in the rest of the operation of thread t of its releases
Unlocks(t) == {i \in DOMAIN pc[t] : pc[t][i].op \in UnlockOps}

\* C15: no thread acquires the engine's mutex while it holds it: a thread at
\* an acquisition does not hold the mutex, and a thread that holds it releases
\* it before the next acquisition on its call path (callbacks, constructors,
\* and destructors with the releases they make).
C15_NoNestedLock ==
    \A t \in Threads :
        /\ AtLock(t) => mutex # t
        /\ mutex = t =>
              /\ Unlocks(t) # {}
              /\ \A i \in 1..(Least(Unlocks(t)) - 1) : pc[t][i].op \notin LockOps

\* the release of a ShapableFace has destroyed it, released the wrapped
\* RenderableFace to zero and reached the lock of that face's destructor
C15_Witness ==
    /\ loc[Owner].name = "ShapableFace::release"
    /\ At(Owner, "mutex.lock") /\ mutex # Owner
    /\ \E s \in SFIds : sf[s].dtor = 1

\* ---------------------------------------------------------------- progress
\* The layer under fair scheduling, from a state in which RenderableFace 1 and
\* a root ShapableFace over it exist (create, ShapableFace::create).  The
\* binding layer makes LiveOps more calls, of the operations that lead to a
\* destructor (deriveVariation and the releases); the shaping thread calls
\* callbacks without bound.
InitLive ==
    LET face1 == [RenderableFace_ctor(1) EXCEPT !.m_retainCount = 2] IN
    /\ rf = [r \in RFIds |-> IF r = 1 THEN face1 ELSE NoRF]
    /\ ft = [r \in RFIds |-> IF r = 1 THEN [NoFT EXCEPT !.open = TRUE] ELSE NoFT]
    /\ sf = [s \in SFIds |->
                IF s = 1
                THEN hb_font_set_funcs(ShapableFace_root(1, 1, 0, units_per_EM(NoFT), face1), 1)
                ELSE NoSF]
    /\ cache = [s \in SFIds |-> EmptyCache]
    /\ fontFile = 2
    /\ funcs = 1
    /\ mutex = NoThread
    /\ pc = [t \in Threads |-> <<>>]
    /\ loc = [t \in Threads |-> Idle]
    /\ ext = [rfs |-> [r \in RFIds |-> IF r = 1 THEN 1 ELSE 0],
              sfs |-> [s \in SFIds |-> IF s = 1 THEN 1 ELSE 0]]
    /\ opsLeft = LiveOps

\* the steps by which an ownership operation in progress goes on, the
\* acquisition of the mutex apart
OwnerContinue(t) ==
    \/ Do_face_index(t)
    \/ Do_createRenderableFace(t)
    \/ Do_setupCoordinates(t)
    \/ Do_ShapableFace_release(t)
    \/ Do_RenderableFace_release(t)
    \/ Do_FT_Done_Face(t)
    \/ Do_unlock(t)
    \/ Do_fontFile_release(t)
    \/ Return(t)

\* the steps by which a callback in progress goes on, the acquisition apart
ShaperContinue(t) ==
    \/ Bodies(t, {1, 3}, {1}, 1)
    \/ Do_FaceUnlock(t)

NextLive ==
    \/ \E r \in RFIds, coords \in CoordSets : RenderableFace_deriveVariation(Owner, r, coords)
    \/ \E r \in RFIds : RenderableFace_release(Owner, r)
    \/ \E s \in SFIds : ShapableFace_release(Owner, s)
    \/ OwnerContinue(Owner)
    \/ Do_lock(Owner)
    \/ \E t \in Threads \ {Owner} :
          \/ Calls(t) /\ UNCHANGED opsLeft
          \/ ShaperContinue(t)
          \/ Do_FaceLock(t)

\* a running thread keeps running, and a thread that waits for the mutex gets
\* it if it is free again and again; nothing obliges a caller to start a call
Fairness ==
    /\ WF_vars(OwnerContinue(Owner))
    /\ SF_vars(Do_lock(Owner))
    /\ \A t \in Threads \ {Owner} :
          /\ WF_vars(ShaperContinue(t))
          /\ SF_vars(Do_FaceLock(t))

SpecLive == InitLive /\ [][NextLive]_vars /\ Fairness

\* C16: under fair scheduling every thread waiting for the engine's mutex
\* gets it, and every operation in progress (callback, table read,
\* construction, release with the destructors it runs) returns: each
\* operation that takes the mutex releases it on every path before it returns.
C16_Progress ==
    \A t \in Threads :
        /\ AtLock(t) ~> (mutex = t)
        /\ (mutex = t) ~> (mutex # t)
        /\ (loc[t].name # "idle") ~> (loc[t].name = "idle")

\* a destructor waits for the mutex while a callback of the other thread holds it
C16_Witness ==
    /\ At(Owner, "mutex.lock")
    /\ mutex \in Threads \ {Owner}



\* ------------------------------------------------- the shared callback set
\* Constructions from both threads at once.  The reference counts are not
\* atomic, so concurrent constructions are over objects of the thread's own:
\* thread t builds its root faces over RenderableFace OwnFace(t) and derives
\* from the faces over it.  Both RenderableFaces exist (create, deriveVariation
\* with coordinates <<1>>); no ShapableFace has been built, createFontFuncs has
\* not run.
OwnFace(t) == IF t = Owner THEN 1 ELSE 2

InitFuncs ==
    \E idx \in FaceIndices :
    /\ ft = [r \in RFIds |->
                IF r = 1 THEN [NoFT EXCEPT !.open = TRUE]
                ELSE IF r = 2
                THEN [NoFT EXCEPT !.open = TRUE, !.face_index = idx,
                                  !.design = fixedCoords(<<1>>), !.setVar = 1]
                ELSE NoFT]
    /\ rf = [r \in RFIds |->
                IF r = 1 THEN RenderableFace_ctor(1)
                ELSE IF r = 2 THEN [RenderableFace_ctor(2) EXCEPT !.m_coordinates = <<1>>]
                ELSE NoRF]
    /\ sf = [s \in SFIds |-> NoSF]
    /\ cache = [s \in SFIds |-> EmptyCache]
    /\ fontFile = 3
    /\ funcs = 0
    /\ mutex = NoThread
    /\ pc = [t \in Threads |-> <<>>]
    /\ loc = [t \in Threads |-> Idle]
    /\ ext = [rfs |-> [r \in RFIds |-> IF r <= 2 THEN 1 ELSE 0],
              sfs |-> [s \in SFIds |-> 0]]
    /\ opsLeft = MaxOps

NextFuncs ==
    \E t \in Threads :
        \/ ShapableFace_create(t, OwnFace(t))
        \/ \E parent \in SFIds :
              /\ sf[parent].m_renderableFace = OwnFace(t)
              /\ ShapableFace_deriveVariation(t, parent, OwnFace(t))
        \/ Do_face_index(t)
        \/ Do_hb_font_create(t)
        \/ Return(t)

SpecFuncs == InitFuncs /\ [][NextFuncs]_vars

\* the ShapableFaces whose constructor has called hb_font_set_funcs
Constructed == {s \in SFIds : sf[s].st = "alive" /\ sf[s].funcsCtx # 0}

\* C17: createFontFuncs runs at most once, and has run once as soon as a
\* ShapableFace is constructed, whichever threads construct root and derived
\* faces and however their constructions interleave; every constructed face
\* has that one set, with itself as the callback context; and the set, once
\* made, and a face's set and context, once installed, never change.
C17_SharedFuncs ==
    /\ [](/\ funcs \in {0, 1}
          /\ \A s \in Constructed :
                /\ funcs = 1
                /\ sf[s].fontFuncs = funcs
                /\ sf[s].funcsCtx = s)
    /\ [][/\ funcs # 0 => funcs' = funcs
          /\ \A s \in Constructed :
                sf'[s].st = "alive" => /\ sf'[s].fontFuncs = sf[s].fontFuncs
                                       /\ sf'[s].funcsCtx = sf[s].funcsCtx]_vars

\* one thread has built a root and a derived face and the other thread is in
\* the middle of a construction of its own, the set having been made
C17_Witness ==
    \E t \in Threads, u \in Threads :
        /\ t # u
        /\ At(t, "hb_font_create")
        /\ loc[u].name = "ShapableFace::deriveVariation"
        /\ sf[loc[u].self].fontFuncs = 1
        /\ funcs = 1


\* ------------------------------------------------------------ root depth
\* the live faces that have a root
Derived == {d \in SFIds : sf[d].st = "alive" /\ sf[d].m_rootFace # 0}

\* thread t's step is a deriveVariation returning a face derived from a face
\* that has a root itself
DerivesFromDerived(t) ==
    /\ loc[t].name = "idle"
    /\ loc'[t].name = "ShapableFace::deriveVariation"
    /\ sf[loc'[t].in[1]].m_rootFace # 0

\* C18: the root of a derived face is another, live face that has no root; the
\* derived face's font is a sub-font of that root's; no face holds a derived
\* face, whose retain count is that of its handles (and of their releases not
\* yet run).  A deriveVariation on a derived face gives the new face the root
\* of that face and retains the root, leaving the count of the face it was
\* called on as it was.
C18_RootDepth ==
    /\ [](\A d \in Derived :
            LET root == sf[d].m_rootFace IN
            /\ root # d
            /\ sf[root].st = "alive"
            /\ sf[root].m_rootFace = 0
            /\ sf[d].hbFace = sf[root].hbFace
            /\ \A e \in SFIds : sf[e].st = "alive" => sf[e].m_rootFace # d
            /\ sf[d].m_retainCount = ext.sfs[d] + Pending("ShapableFace::release", d))
    /\ [][\A t \in Threads : DerivesFromDerived(t) =>
            LET parent == loc'[t].in[1]
                root == sf[parent].m_rootFace
            IN
            /\ sf'[loc'[t].self].m_rootFace = root
            /\ sf'[root].m_retainCount = sf[root].m_retainCount + 1
            /\ sf'[parent].m_retainCount = sf[parent].m_retainCount]_vars

\* deriveVariation on a derived face has returned a third face: it has the
\* root of the face it was derived from
C18_Witness ==
    LET parent == loc[Owner].in[1]
        d == loc[Owner].self
    IN
    /\ loc[Owner].name = "ShapableFace::deriveVariation"
    /\ parent \in Derived
    /\ d \in Derived \ {parent}
    /\ sf[d].m_rootFace = sf[parent].m_rootFace


\* ------------------------------------------------- glyph identifier width
\* the glyph identifier of entry i of an advance query, modulo 2^16
Low16(t, i) == InEntry(t, i) % 65536

\* C19: an advance query answers for the glyph identifier modulo 2^16: the
\* lookup is under that id, the value is the engine's for that id, and after
\* the single query the cache holds, under that id, the value returned (the
\* one just stored on a miss); in a batch every entry gets the engine's value
\* for its id modulo 2^16, so entries congruent modulo 65536 get the same
\* advance; every key of a cache is a 16-bit id.
C19_GlyphIDWidth ==
    /\ \A s \in SFIds : \A i \in DOMAIN cache[s] :
          cache[s][i] # EmptySlot => cache[s][i].key \in 0..65535
    /\ \A t \in Threads : Done(t, "glyph_h_advance") =>
          LET id == Low16(t, 0)
              e == cache[loc[t].self][id % CacheSize]
              e0 == loc[t].cache0[id % CacheSize]
          IN
          /\ loc[t].hit <=> e0.key = id
          /\ loc[t].ret = FT_Get_Advance(InstanceFace(loc[t].self), id)
          /\ e = [key |-> id, val |-> loc[t].ret]
    /\ \A t \in Threads : Done(t, "glyph_h_advances") =>
          \A i \in 0..(loc[t].count - 1) :
              /\ loc[t].out[Pos(i, loc[t].outStride)]
                    = FT_Get_Advance(InstanceFace(loc[t].self), Low16(t, i))
              /\ \A j \in 0..(loc[t].count - 1) :
                    Low16(t, i) = Low16(t, j) =>
                        loc[t].out[Pos(i, loc[t].outStride)]
                            = loc[t].out[Pos(j, loc[t].outStride)]

\* a query for an identifier wider than 16 bits finds the entry stored for the
\* identifier congruent to it, with an advance that is not 0
C19_Witness ==
    \E t \in Threads :
        /\ Done(t, "glyph_h_advance")
        /\ InEntry(t, 0) > 65535
        /\ loc[t].hit
        /\ loc[t].ret # 0

====
